---- MODULE Spec2Model ----
(***************************************************************************)
(* Model of the probabilistic geolocation engine of pdf_mapping_berlin:    *)
(* the clue classes of location.py (Location, Satellite, River, BGate)     *)
(* and the grid engine of code/mapper.py (Mapper).                         *)
(*                                                                         *)
(* Number representation.  The program computes with IEEE doubles; the     *)
(* model computes with integers in fixed units:                            *)
(*   - latitudes and longitudes are in hundredths of a degree,             *)
(*   - planar coordinates and distances are in hectometres (0.1 km),       *)
(*   - densities are in hundredths of the peak density (DensityUnit),      *)
(*   - posterior masses are in thousandths (PostUnit == mass 1).           *)
(* NaN is the IEEE not-a-number: every arithmetic operator below returns   *)
(* NaN when an operand is NaN, and 0/0 is NaN, as numpy does (numpy only   *)
(* emits a RuntimeWarning for a float division by zero, it never raises).  *)
(***************************************************************************)
EXTENDS Integers, Sequences, FiniteSets

\* ----------------------------------------------------------------------
\* Region of interest (location.py:6-7, mapper.py:7-8), in 0.01 degree.
SW_LAT == 5246
SW_LON == 1327
NE_LAT == 5259
NE_LON == 1352

\* 111.323 km per degree = 11 hm per 0.01 degree (location.py:118).
KmPerDeg == 11
\* cos(SW_LAT*pi/180) * 111.323 km per degree = 7 hm per 0.01 degree
\* (location.py:117).
CosKmPerDeg == 7

\* Fixed-point units of the model.
DensityUnit == 100
PostUnit == 1000
UUnit == 1000

\* The IEEE NaN.
NaN == 0 - 1000000

IsNaN(x) == x = NaN

\* ----------------------------------------------------------------------
\* numpy / math helpers

Abs(x) == IF x < 0 THEN 0 - x ELSE x

\* The largest r in lo..hi with r * r <= x, by bisection.
RECURSIVE SqrtIn(_, _, _)
SqrtIn(x, lo, hi) ==
    IF lo >= hi THEN lo
    ELSE LET mid == (lo + hi + 1) \div 2
         IN IF mid * mid <= x THEN SqrtIn(x, mid, hi)
            ELSE SqrtIn(x, lo, mid - 1)

\* np.sqrt on a non-negative number (rounded down); NaN stays NaN.
Sqrt(x) == IF IsNaN(x) THEN NaN ELSE SqrtIn(x, 0, 30000)

\* Float division a / b in units of 1 / unit: 0/0 and NaN operands give
\* NaN.  It is used for the projection parameter of line_distance, whose
\* numerator is zero whenever its divisor is, so +-inf does not arise
\* (the one division that yields inf, scale / 0.0 in set_distribution,
\* is handled there).
Div(a, b, unit) ==
    IF IsNaN(a) \/ IsNaN(b) THEN NaN
    ELSE IF b = 0 THEN NaN
    ELSE (a * unit) \div b

\* np.clip(u, lo, hi): NaN is passed through.
Clip(u, lo, hi) ==
    IF IsNaN(u) THEN NaN
    ELSE IF u < lo THEN lo
    ELSE IF u > hi THEN hi
    ELSE u

\* Python's builtin min over a non-empty sequence: it keeps the first
\* item and replaces it only when a later item compares strictly less.
\* Every comparison with NaN is False, so a NaN in first position is
\* returned and a NaN in a later position is skipped.
PyLess(a, b) == ~IsNaN(a) /\ ~IsNaN(b) /\ a < b

RECURSIVE PyMinFrom(_, _, _)
PyMinFrom(s, i, best) ==
    IF i > Len(s) THEN best
    ELSE PyMinFrom(s, i + 1, IF PyLess(s[i], best) THEN s[i] ELSE best)

PyMin(s) == PyMinFrom(s, 2, s[1])

\* sin of an angle in degrees, in thousandths (Bhaskara's approximation
\* on [0, 180], odd symmetry on (180, 360)).
SinHalf(x) == (4000 * x * (180 - x)) \div (40500 - x * (180 - x))

SinDeg(d) ==
    LET x == d % 360
    IN IF x <= 180 THEN SinHalf(x) ELSE 0 - SinHalf(x - 180)

\* arctan of t/1000 for 0 <= t <= 1000, in degrees.
AtanDeg(t) == (45 * t + (16 * t * (1000 - t)) \div 1000) \div 1000

\* np.degrees(np.arctan2(y, x)) in (-180, 180]; arctan2(0, 0) = 0.
Atan2Deg(y, x) ==
    LET ay == Abs(y)
        ax == Abs(x)
        a  == IF ax = 0 /\ ay = 0 THEN 0
              ELSE IF ay <= ax THEN AtanDeg((ay * 1000) \div ax)
              ELSE 90 - AtanDeg((ax * 1000) \div ay)
        q  == IF x >= 0 THEN a ELSE 180 - a
    IN IF y >= 0 THEN q ELSE 0 - q

\* floor(log2(x)) for x >= 1.
RECURSIVE ILog2(_)
ILog2(x) == IF x < 2 THEN 0 ELSE 1 + ILog2(x \div 2)

RECURSIVE Pow2(_)
Pow2(k) == IF k <= 0 THEN 1 ELSE 2 * Pow2(k - 1)

\* 10 * log2(x) for x >= 1, linear between powers of two.
Log2Tenths(x) ==
    LET k == ILog2(x)
    IN 10 * k + (10 * (x - Pow2(k))) \div Pow2(k)

\* 10 * ln(a / b) for a, b >= 1.
LnTenths(a, b) == (693 * (Log2Tenths(a) - Log2Tenths(b))) \div 1000

\* np.exp(m / 10) km, in hectometres, linear between powers of two.
ExpHm(m) ==
    LET t == (m * 1443) \div 1000
    IN IF t < 0 THEN 0
       ELSE Pow2(t \div 10) * (10 + (t % 10))

\* Division rounding toward zero, for signed quantities.
TruncDiv(a, b) == IF a >= 0 THEN a \div b ELSE 0 - ((0 - a) \div b)

\* ----------------------------------------------------------------------
\* scipy.stats frozen distributions (location.py:44, 77, 138)

\* The shape parameter s of an infinite ratio scale / 0.
Inf == 1000000

\* exp(-z^2 / 2) in DensityUnit, by whole z; exactly 0 once the double
\* underflows (here from z = 4 on, in doubles from z = 39 on).
NormTable(z) ==
    IF z = 0 THEN DensityUnit
    ELSE IF z = 1 THEN 61
    ELSE IF z = 2 THEN 14
    ELSE IF z = 3 THEN 1
    ELSE 0

\* scs.norm(0, ci_range / 1.96) : sigma in 0.01 hm.
norm(ci_range) ==
    [family |-> "norm", s |-> 0, scale |-> TruncDiv(ci_range * 10000, 196)]

\* scs.lognorm(s=s, scale=scale) : s*s in tenths, scale in hm.
lognorm(s2, scale) == [family |-> "lognorm", s |-> s2, scale |-> scale]

\* rv_frozen.pdf(x): NaN for invalid parameters or a NaN argument.
pdf(distribution, x) ==
    IF IsNaN(x) THEN NaN
    ELSE IF distribution.family = "norm"
    THEN IF distribution.scale <= 0 THEN NaN
         ELSE NormTable((Abs(x) * 100) \div distribution.scale)
    ELSE IF IsNaN(distribution.s) \/ distribution.s <= 0
            \/ distribution.scale <= 0 THEN NaN
    ELSE IF x <= 0 THEN 0
    ELSE IF distribution.s = Inf THEN 0
    ELSE LET y  == Abs(LnTenths(x, distribution.scale))
             \* z = |ln(x / scale)| / s
             z  == Sqrt((y * y) \div (10 * distribution.s))
         IN (NormTable(z) * 10) \div x

\* ----------------------------------------------------------------------
\* location.py

\* geopy's vincenty(a, b).km for (lat, lon) pairs inside the region, in hm.
vincenty(a, b) ==
    LET north == (b[1] - a[1]) * KmPerDeg
        east  == (b[2] - a[2]) * CosKmPerDeg
    IN Sqrt(north * north + east * east)

\* Satellite.bearing(start, end): inside the region the arctan2 arguments
\* are the east and north displacements; the result is taken % 360.
bearing(start, end) ==
    LET north == (end[1] - start[1]) * KmPerDeg
        east  == (end[2] - start[2]) * CosKmPerDeg
    IN Atan2Deg(east, north) % 360

\* River.convert_xy(lon, lat)
convert_xy(lon, lat) ==
    << (lon - SW_LON) * CosKmPerDeg, (lat - SW_LAT) * KmPerDeg >>

\* River.make_linear(coords): each pair of coords is unpacked
\* positionally into convert_xy(lon, lat).
make_linear(coords) ==
    LET xy_coords == [i \in 1..Len(coords) |->
                         convert_xy(coords[i][1], coords[i][2])]
    IN [i \in 1..(IF Len(coords) = 0 THEN 0 ELSE Len(coords) - 1) |->
           << xy_coords[i], xy_coords[i + 1] >>]

\* River.line_distance(point, line)
line_distance(point, line) ==
    LET start == line[1]
        end   == line[2]
        line_x == end[1] - start[1]
        line_y == end[2] - start[2]
        \* line_length**2, with line_length = np.sqrt(line_x**2 + line_y**2)
        line_length_sq == line_x * line_x + line_y * line_y
        u0 == Div((point[1] - start[1]) * line_x
                    + (point[2] - start[2]) * line_y, line_length_sq, UUnit)
        u  == Clip(u0, 0, UUnit)
    IN IF IsNaN(u) THEN NaN
       ELSE LET x  == start[1] + TruncDiv(u * line_x, UUnit)
                y  == start[2] + TruncDiv(u * line_y, UUnit)
                dx == x - point[1]
                dy == y - point[2]
            IN Sqrt(dx * dx + dy * dy)

\* Whether obj.distance(point) raises instead of returning:
\*   Satellite: "sat_start, sat_end = self.coords" needs exactly 2 items,
\*   River: min() of an empty sequence of lines,
\*   BGate: self.coords[0] of an empty list.
distance_raises(obj) ==
    \/ obj.name = "satellite" /\ Len(obj.coords) # 2
    \/ obj.name = "river" /\ Len(obj.lines) = 0
    \/ obj.name = "brandenburger_gate" /\ Len(obj.coords) = 0

\* Satellite.distance(point): the cross-track distance
\* arcsin(sin(d13 / R) * sin(theta_13 - theta_12)) * R, which for
\* d13 << R is d13 * sin(theta_13 - theta_12).
Satellite_distance(obj, point) ==
    LET sat_start == obj.coords[1]
        sat_end   == obj.coords[2]
        d13       == vincenty(sat_start, point)
        theta_13  == bearing(sat_start, point)
        theta_12  == bearing(sat_start, sat_end)
    IN TruncDiv(d13 * SinDeg(theta_13 - theta_12), 1000)

\* River.distance(point)
River_distance(obj, point) ==
    LET xy_point == convert_xy(point[1], point[2])
    IN PyMin([i \in 1..Len(obj.lines) |->
                 line_distance(xy_point, obj.lines[i])])

\* BGate.distance(point)
BGate_distance(obj, point) == vincenty(point, obj.coords[1])

\* obj.distance(point), for an object whose distance does not raise.
distance(obj, point) ==
    IF obj.name = "satellite" THEN Satellite_distance(obj, point)
    ELSE IF obj.name = "river" THEN River_distance(obj, point)
    ELSE BGate_distance(obj, point)

\* Location.prob(point)
prob(obj, point) ==
    LET path_dist == distance(obj, point)
    IN pdf(obj.distribution, path_dist)

\* BGate.set_distribution(mean, mode): scale = exp(mean),
\* s = sqrt(log(scale / float(mode))).  scale / 0.0 is inf (s = inf),
\* the log of a negative ratio and the sqrt of a negative log are NaN.
set_distribution(mean, mode) ==
    LET scale == ExpHm(mean)
        s2    == IF mode = 0 THEN Inf
                 ELSE IF mode < 0 \/ scale < 1 THEN NaN
                 ELSE IF LnTenths(scale, mode) < 0 THEN NaN
                 ELSE LnTenths(scale, mode)
    IN lognorm(s2, scale)

\* Satellite.__init__(coords, ci_range)
Satellite(coords, ci_range) ==
    [name |-> "satellite", coords |-> coords, lines |-> << >>,
     distribution |-> norm(ci_range)]

\* River.__init__(coords, ci_range)
River(coords, ci_range) ==
    [name |-> "river", coords |-> coords, lines |-> make_linear(coords),
     distribution |-> norm(ci_range)]

\* BGate.__init__(coords, mean, mode)
BGate(coords, mean, mode) ==
    [name |-> "brandenburger_gate", coords |-> coords, lines |-> << >>,
     distribution |-> set_distribution(mean, mode)]

\* ----------------------------------------------------------------------
\* Bounds and inputs

\* Largest grid resolution n of a Mapper.
MaxN == 3

\* 1 / n^2 is exact in units of 1 / PriorUnit for n = 1..4.
PriorUnit == 144

Names == {"brandenburger_gate", "satellite", "river"}

\* Reference coordinates, (lat, lon) in 0.01 degree; the landmark, the
\* satellite track and a three-point river follow code/main.py.
Gate      == << 5252, 1338 >>
Corner    == << SW_LAT, SW_LON >>
SatStart  == << 5259, 1340 >>
SatEnd    == << 5244, 1355 >>
Spree1    == << 5253, 1327 >>
Spree2    == << 5252, 1340 >>
Spree3    == << 5249, 1352 >>

\* Configurations offered to the constructors: ci_range and mode in hm,
\* mean in tenths of ln km.  The first of each kind is that of main.py
\* (BGate: mean 4.7, mode 3.877; Satellite: 2.4; River: 2.73).
SatelliteConfigs ==
    { [coords |-> << SatStart, SatEnd >>, ci_range |-> 24],
      [coords |-> << SatStart, SatEnd >>, ci_range |-> 5],
      [coords |-> << SatStart >>, ci_range |-> 24],
      [coords |-> << SatStart, SatEnd >>, ci_range |-> 0] }

RiverConfigs ==
    { [coords |-> << Spree1, Spree2, Spree3 >>, ci_range |-> 27],
      [coords |-> << Spree1, Spree2, Spree3 >>, ci_range |-> 5],
      [coords |-> << Spree1, Spree1, Spree3 >>, ci_range |-> 27],
      [coords |-> << Spree1, Spree3, Spree3 >>, ci_range |-> 27],
      [coords |-> << Spree1 >>, ci_range |-> 27],
      [coords |-> << Spree1, Spree2, Spree3 >>, ci_range |-> 0 - 27] }

BGateConfigs ==
    { [coords |-> << Gate >>, mean |-> 47, mode |-> 39],
      [coords |-> << Corner >>, mean |-> 47, mode |-> 39],
      [coords |-> << Gate >>, mean |-> 47, mode |-> 0] }

\* The configurations of the objects a Mapper is run on.
MapperSatelliteConfigs ==
    { c \in SatelliteConfigs : Len(c.coords) = 2 /\ c.ci_range > 0 }

MapperRiverConfigs ==
    { c \in RiverConfigs : c.coords = << Spree1, Spree2, Spree3 >>
                           /\ c.ci_range > 0 }

MapperBGateConfigs ==
    { c \in BGateConfigs : c.coords = << Gate >> /\ c.mode > 0 }

\* The resolutions of the Mappers: a single cell and the largest grid.
Resolutions == {1, MaxN}

VARIABLES
    objects,   \* the constructed clue objects, by name
    pdfattr,   \* the "pdf" attribute of the objects that have one
    mappers,   \* the constructed Mapper objects, by n
    ret        \* what the last call did and returned

vars == << objects, pdfattr, mappers, ret >>

\* ----------------------------------------------------------------------
\* code/mapper.py

\* np.linspace(a, b, n)
linspace(a, b, n) ==
    [i \in 1..n |-> IF n = 1 THEN a ELSE a + ((i - 1) * (b - a)) \div (n - 1)]

\* Mapper.generate_mesh_grid(n): X, Y = np.meshgrid(x, y) has
\* X[i][j] = x[j] and Y[i][j] = y[i]; flatten() is row-major.
generate_mesh_grid(n) ==
    LET x == linspace(SW_LAT, NE_LAT, n)
        y == linspace(SW_LON, NE_LON, n)
    IN << [k \in 1..(n * n) |-> x[((k - 1) % n) + 1]],
          [k \in 1..(n * n) |-> y[((k - 1) \div n) + 1]] >>

\* The objects of main.py, in its order, as far as constructed.
AllObjects(objs) ==
    LET order == << "brandenburger_gate", "satellite", "river" >>
    IN SelectSeq(order, LAMBDA nm : nm \in DOMAIN objs)

\* Mapper.__init__(objs, n)
Mapper(objs, n) ==
    [objects |-> objs,
     latitudes |-> generate_mesh_grid(n)[1],
     longitudes |-> generate_mesh_grid(n)[2]]

\* A get_pdf whose "pdf" attribute belongs to the class: every object
\* returns the list the first object computed.
get_pdf_shared(nm, attrs, lats, lons) ==
    IF DOMAIN attrs # {}
    THEN [raised |-> FALSE, out |-> attrs[CHOOSE k \in DOMAIN attrs : TRUE],
          attrs |-> attrs]
    ELSE LET computed == [i \in 1..Len(lats) |->
                             prob(objects[nm], << lats[i], lons[i] >>)]
         IN [raised |-> FALSE, out |-> computed,
             attrs |-> [k \in {nm} |-> computed]]

\* Location.get_pdf(lats, lons) on object nm with attribute map attrs:
\* the list is computed only when the object has no "pdf" attribute yet,
\* whatever lats and lons are; prob raising leaves the object unchanged.
get_pdf(nm, attrs, lats, lons) ==
    IF nm \in DOMAIN attrs
    THEN [raised |-> FALSE, out |-> attrs[nm], attrs |-> attrs]
    ELSE IF distance_raises(objects[nm])
    THEN [raised |-> TRUE, out |-> << >>, attrs |-> attrs]
    ELSE LET computed == [i \in 1..Len(lats) |->
                             prob(objects[nm], << lats[i], lons[i] >>)]
         IN [raised |-> FALSE, out |-> computed,
             attrs |-> [k \in DOMAIN attrs \cup {nm} |->
                           IF k = nm THEN computed ELSE attrs[k]]]

\* "distribution = probs" in place of "distribution *= probs".
Mul_assign(a, b) == IF IsNaN(a) \/ IsNaN(b) THEN NaN ELSE b

Mul(a, b) == IF IsNaN(a) \/ IsNaN(b) THEN NaN ELSE a * b

RECURSIVE SumFrom(_, _)
SumFrom(s, i) ==
    IF i > Len(s) THEN 0
    ELSE LET rest == SumFrom(s, i + 1)
         IN IF IsNaN(s[i]) \/ IsNaN(rest) THEN NaN ELSE s[i] + rest

\* np.sum(a)
Sum(s) == SumFrom(s, 1)

\* a / total in PostUnit, for 0 <= a <= total, by long division.
RECURSIVE LongDiv(_, _, _)
LongDiv(a, total, unit) ==
    IF unit = 1 THEN a \div total
    ELSE (a \div total) * unit + LongDiv((a % total) * 10, total, unit \div 10)

\* distribution /= np.sum(distribution): x / NaN is NaN, and 0 / 0 is NaN
\* (the entries are non-negative, so all are 0 when the sum is 0).
normalize(distribution) ==
    LET total == Sum(distribution)
    IN [i \in 1..Len(distribution) |->
          IF IsNaN(distribution[i]) \/ IsNaN(total) \/ total = 0 THEN NaN
          ELSE LongDiv(distribution[i], total, PostUnit)]

\* The loop of Mapper.get_distribution from position i on:
\* "distribution *= probs" multiplies cell by cell, broadcasts a list of
\* length 1 and raises ValueError for any other length mismatch.
RECURSIVE update(_, _, _, _, _)
update(m, objs, i, distribution, attrs) ==
    IF i > Len(objs)
    THEN [raised |-> FALSE, out |-> distribution, attrs |-> attrs]
    ELSE LET got == get_pdf(objs[i], attrs, m.latitudes, m.longitudes)
             probs == got.out
         IN IF got.raised
            THEN [raised |-> TRUE, out |-> << >>, attrs |-> got.attrs]
            ELSE IF Len(probs) = Len(distribution)
            THEN update(m, objs, i + 1,
                        [k \in 1..Len(distribution) |->
                            Mul(distribution[k], probs[k])], got.attrs)
            ELSE IF Len(probs) = 1
            THEN update(m, objs, i + 1,
                        [k \in 1..Len(distribution) |->
                            Mul(distribution[k], probs[1])], got.attrs)
            ELSE [raised |-> TRUE, out |-> << >>, attrs |-> got.attrs]

\* Mapper.get_distribution(objs) on mapper m.
get_distribution(m, objs, attrs) ==
    LET ones  == [k \in 1..Len(m.latitudes) |-> 1]
        prior == [k \in 1..Len(ones) |-> (ones[k] * PriorUnit) \div Sum(ones)]
        prod  == update(m, objs, 1, prior, attrs)
    IN IF prod.raised THEN prod
       ELSE [raised |-> FALSE, out |-> normalize(prod.out),
             attrs |-> prod.attrs]

\* An argmax that keeps the last of equal maxima.
RECURSIVE argmaxFrom_last(_, _, _)
argmaxFrom_last(a, i, best) ==
    IF i > Len(a) THEN best
    ELSE IF IsNaN(a[best]) THEN best
    ELSE IF IsNaN(a[i]) \/ a[i] >= a[best] THEN argmaxFrom_last(a, i + 1, i)
    ELSE argmaxFrom_last(a, i + 1, best)

\* np.argmax(a): the first NaN if there is one, else the first maximum.
RECURSIVE argmaxFrom(_, _, _)
argmaxFrom(a, i, best) ==
    IF i > Len(a) THEN best
    ELSE IF IsNaN(a[best]) THEN best
    ELSE IF IsNaN(a[i]) \/ a[i] > a[best] THEN argmaxFrom(a, i + 1, i)
    ELSE argmaxFrom(a, i + 1, best)

argmax(a) == argmaxFrom(a, 2, 1)

\* Mapper.find_maximum(distribution)
find_maximum(m, distribution) ==
    LET max_idx == argmax(distribution)
    IN << m.latitudes[max_idx], m.longitudes[max_idx] >>

\* ----------------------------------------------------------------------
\* State machine

NoCall ==
    [op |-> "none", n |-> 0, objs |-> << >>, point |-> << >>,
     args |-> << >>, raised |-> FALSE, out |-> << >>, xy |-> << >>,
     maximum |-> << >>]

Empty == [k \in {} |-> 0]

Put(f, key, val) == [k \in DOMAIN f \cup {key} |-> IF k = key THEN val ELSE f[k]]

\* Nothing constructed yet.
InitClues ==
    /\ objects = Empty
    /\ pdfattr = Empty
    /\ mappers = Empty
    /\ ret = NoCall

\* main.py generates the objects before it creates a Mapper from them.
\* No __init__ validates its arguments: scs.norm and scs.lognorm freeze
\* any parameters, np.log and np.sqrt return NaN or inf with a warning.
Construct(obj, c) ==
    /\ obj.name \notin DOMAIN objects
    /\ DOMAIN mappers = {}
    /\ objects' = Put(objects, obj.name, obj)
    /\ ret' = [NoCall EXCEPT !.op = "__init__", !.objs = << obj.name >>,
                       !.args = c]
    /\ UNCHANGED << pdfattr, mappers >>

NewSatellite ==
    \E c \in SatelliteConfigs : Construct(Satellite(c.coords, c.ci_range), c)

NewRiver ==
    \E c \in RiverConfigs : Construct(River(c.coords, c.ci_range), c)

NewBGate ==
    \E c \in BGateConfigs : Construct(BGate(c.coords, c.mean, c.mode), c)

\* The cells of the grids, as query points.
QueryPoints ==
    UNION { { << generate_mesh_grid(n)[1][k], generate_mesh_grid(n)[2][k] >> :
                k \in 1..(n * n) } : n \in Resolutions }

\* obj.distance(point)
Distance ==
    \E nm \in DOMAIN objects, point \in QueryPoints :
        /\ ret' = [NoCall EXCEPT
                     !.op = "distance", !.objs = << nm >>, !.point = point,
                     !.raised = distance_raises(objects[nm]),
                     !.out = IF distance_raises(objects[nm]) THEN << >>
                             ELSE << distance(objects[nm], point) >>,
                     !.xy = IF nm = "river"
                            THEN convert_xy(point[1], point[2]) ELSE << >>]
        /\ UNCHANGED << objects, pdfattr, mappers >>

\* mapper = Mapper(objects, n), once the objects exist.
NewMapper ==
    \E n \in Resolutions :
        /\ DOMAIN mappers = {}
        /\ DOMAIN objects # {}
        /\ mappers' = Put(mappers, n, Mapper(AllObjects(objects), n))
        /\ ret' = [NoCall EXCEPT !.op = "Mapper", !.n = n]
        /\ UNCHANGED << objects, pdfattr >>

\* obj.get_pdf(mapper.latitudes, mapper.longitudes)
GetPdf ==
    \E n \in DOMAIN mappers, nm \in DOMAIN objects :
    \E got \in { get_pdf(nm, pdfattr, mappers[n].latitudes,
                         mappers[n].longitudes) } :
        /\ pdfattr' = got.attrs
        /\ ret' = [NoCall EXCEPT
                     !.op = "get_pdf", !.n = n, !.objs = << nm >>,
                     !.raised = got.raised, !.out = got.out]
        /\ UNCHANGED << objects, mappers >>

\* The lists of distinct items of S.
Selections(S) ==
    { s \in UNION { [1..k -> S] : k \in 0..Cardinality(S) } :
        \A i, j \in 1..Len(s) : i # j => s[i] # s[j] }

\* mapper.get_distribution(objs)
GetDistribution ==
    \E n \in DOMAIN mappers, objs \in Selections(DOMAIN objects) \ {<< >>} :
    \E got \in { get_distribution(mappers[n], objs, pdfattr) } :
        /\ pdfattr' = got.attrs
        /\ ret' = [NoCall EXCEPT
                     !.op = "get_distribution", !.n = n, !.objs = objs,
                     !.raised = got.raised, !.out = got.out]
        /\ UNCHANGED << objects, mappers >>

\* mapper.generate_map(objs, max_marker=...), called as main.py does with
\* one object or with none: "if not objs" replaces a missing list by
\* self.objects.  find_maximum runs when max_marker is set; the rendering
\* that follows (gmplot, matplotlib, the reshape to 256 x 256) reads the
\* distribution only and is outside the model.
GenerateMap ==
    \E n \in DOMAIN mappers, max_marker \in BOOLEAN,
       sel \in { s \in Selections(DOMAIN objects) : Len(s) <= 1 } :
    \E objs \in { IF sel = << >> THEN mappers[n].objects ELSE sel } :
    \E got \in { get_distribution(mappers[n], objs, pdfattr) } :
        /\ pdfattr' = got.attrs
        /\ ret' = [NoCall EXCEPT
                     !.op = "generate_map", !.n = n, !.objs = objs,
                     !.raised = got.raised, !.out = got.out,
                     !.maximum = IF max_marker /\ ~got.raised
                                 THEN find_maximum(mappers[n], got.out)
                                 ELSE << >>]
        /\ UNCHANGED << objects, mappers >>

\* The objects of main.py, constructed.
MainObjects ==
    { [nm \in Names |->
          IF nm = "satellite" THEN Satellite(sc.coords, sc.ci_range)
          ELSE IF nm = "river" THEN River(rc.coords, rc.ci_range)
          ELSE BGate(bc.coords, bc.mean, bc.mode)] :
        sc \in MapperSatelliteConfigs, rc \in MapperRiverConfigs,
        bc \in MapperBGateConfigs }

\* The objects are constructed and a Mapper of each resolution is
\* created from them.
Init ==
    /\ objects \in MainObjects
    /\ pdfattr = Empty
    /\ mappers = [n \in Resolutions |-> Mapper(AllObjects(objects), n)]
    /\ ret = NoCall

\* The objects are constructed and one Mapper is created from them.
InitOne ==
    /\ objects \in MainObjects
    /\ pdfattr = Empty
    /\ \E n \in Resolutions :
          mappers = [k \in {n} |-> Mapper(AllObjects(objects), n)]
    /\ ret = NoCall

NextClues ==
    \/ NewSatellite
    \/ NewRiver
    \/ NewBGate
    \/ Distance
    \/ NewMapper

Next ==
    \/ GetPdf
    \/ GetDistribution
    \/ GenerateMap

\* The engine run on Mappers of several resolutions sharing the objects.
Spec == Init /\ [][Next]_vars

\* The engine run on one Mapper.
SpecOne == InitOne /\ [][Next]_vars

\* The construction of the objects and the evaluation of their distances.
SpecClues == InitClues /\ [][NextClues]_vars

\* ----------------------------------------------------------------------
\* Properties

\* The coordinate of cell k of mapper m.
Cell(m, k) == << m.latitudes[k], m.longitudes[k] >>

\* The last call produced a posterior (or raised while doing so).
IsCombine == ret.op \in {"get_distribution", "generate_map"}

\* The product of the densities of the objects objs[i..] at a point,
\* each evaluated afresh.
RECURSIVE Likelihood(_, _, _)
Likelihood(objs, i, point) ==
    IF i > Len(objs) THEN 1
    ELSE LET p    == prob(objects[objs[i]], point)
             rest == Likelihood(objs, i + 1, point)
         IN IF IsNaN(p) \/ IsNaN(rest) THEN NaN ELSE p * rest

\* The uniform prior times the densities of exactly the objects objs,
\* before normalization.
PriorTimesDensities(m, objs) ==
    [k \in 1..Len(m.latitudes) |->
        LET l == Likelihood(objs, 1, Cell(m, k))
        IN IF IsNaN(l) THEN NaN
           ELSE (PriorUnit \div Len(m.latitudes)) * l]

\* IEEE comparisons: false when an operand is NaN.
Greater(a, b) == ~IsNaN(a) /\ ~IsNaN(b) /\ a > b
Equal(a, b) == ~IsNaN(a) /\ ~IsNaN(b) /\ a = b

\* C1: every posterior returned by get_distribution has one non-negative
\* entry per lattice cell and its entries sum to 1 within tolerance (one
\* unit of rounding per cell).
C1_PosteriorSumsToOne ==
    (IsCombine /\ ~ret.raised) =>
        /\ Len(ret.out) = ret.n * ret.n
        /\ \A i \in 1..Len(ret.out) : ~IsNaN(ret.out[i]) /\ ret.out[i] >= 0
        /\ Abs(Sum(ret.out) - PostUnit) <= Len(ret.out)

\* C2: the sequence get_pdf returns for a lattice has one entry per cell
\* of that lattice, and entry i is the density of the object at the
\* coordinate of cell i of that lattice.
C2_PdfIsForTheLattice ==
    (ret.op = "get_pdf" /\ ~ret.raised) =>
        LET m == mappers[ret.n]
        IN /\ Len(ret.out) = Len(m.latitudes)
           /\ \A i \in 1..Len(m.latitudes) :
                 ret.out[i] = prob(objects[ret.objs[1]], Cell(m, i))

\* A valid configuration: at least 2 reference coordinates and a positive
\* confidence range for an arc or a polyline, a positive mode for a
\* landmark.
ValidConfiguration(name, c) ==
    IF name = "brandenburger_gate" THEN c.mode > 0
    ELSE Len(c.coords) >= 2 /\ c.ci_range > 0

\* The same, read off a constructed object.
ValidObject(obj) ==
    IF obj.name = "brandenburger_gate"
    THEN ~IsNaN(obj.distribution.s) /\ obj.distribution.s # Inf
    ELSE Len(obj.coords) >= 2 /\ obj.distribution.scale > 0

\* C3: constructing a clue from an invalid configuration raises and
\* creates no object, and no distance is ever evaluated on an object of
\* an invalid configuration.
C3_InvalidConfigurationFailsFast ==
    /\ (ret.op = "__init__" /\ ~ValidConfiguration(ret.objs[1], ret.args)) =>
          (ret.raised /\ ret.objs[1] \notin DOMAIN objects)
    /\ ret.op = "distance" => ValidObject(objects[ret.objs[1]])

\* C4: when the product of the uniform prior and the densities of the
\* selected clues has total mass 0, get_distribution raises an error and
\* returns no NaN posterior.
C4_ZeroMassRaises ==
    (IsCombine /\ Sum(PriorTimesDensities(mappers[ret.n], ret.objs)) = 0) =>
        /\ ret.raised
        /\ \A i \in 1..Len(ret.out) : ~IsNaN(ret.out[i])

\* The lists with the same items as objs, in every order.
Reorderings(objs) ==
    { p \in Selections(DOMAIN objects) :
        Len(p) = Len(objs) /\ \A i \in 1..Len(objs) : \E j \in 1..Len(p) :
            p[j] = objs[i] }

\* C5: a call of get_distribution with the clue list of the last call in
\* any other order returns the same posterior, cell by cell (and raises
\* exactly when the last call raised).
C5_OrderIndependent ==
    ret.op = "get_distribution" =>
        \A p \in Reorderings(ret.objs) :
            LET again == get_distribution(mappers[ret.n], p, pdfattr)
            IN /\ again.raised = ret.raised
               /\ again.out = ret.out

C5_Witness ==
    /\ ret.op = "get_distribution"
    /\ ~ret.raised
    /\ ret.objs = << "river", "satellite", "brandenburger_gate" >>
    /\ ret.n = MaxN
    /\ \E i, j \in 1..Len(ret.out) : ret.out[i] > 0 /\ ret.out[j] > ret.out[i]
    /\ get_distribution(mappers[ret.n], AllObjects(objects), pdfattr).out
          = ret.out

\* Index idx holds the maximal value of a, and no smaller index does.
IsFirstMaximum(a, idx) ==
    /\ \A j \in 1..Len(a) : ~Greater(a[j], a[idx])
    /\ \A j \in 1..(idx - 1) : ~Equal(a[j], a[idx])

\* C6: find_maximum returns the lattice coordinate of the smallest index
\* that holds the maximal posterior value, in the flattened order of
\* generate_mesh_grid.
C6_MaximumIsFirstOccurrence ==
    (ret.op = "generate_map" /\ ret.maximum # << >>) =>
        \E idx \in 1..Len(ret.out) :
            /\ ret.maximum = Cell(mappers[ret.n], idx)
            /\ IsFirstMaximum(ret.out, idx)

C6_Witness ==
    /\ ret.op = "generate_map"
    /\ ret.maximum # << >>
    /\ \E i, j \in 1..Len(ret.out) :
          /\ 1 < i /\ i < j
          /\ ret.out[i] > 0
          /\ ret.out[j] = ret.out[i]
          /\ IsFirstMaximum(ret.out, i)
          /\ ret.maximum = Cell(mappers[ret.n], i)

\* C7: the distance an object of a valid configuration returns is
\* non-negative (a NaN distance is the subject of C8 and is not counted
\* here).
C7_DistanceNonNegative ==
    (/\ ret.op = "distance"
     /\ ValidObject(objects[ret.objs[1]])
     /\ ~ret.raised
     /\ ~IsNaN(ret.out[1])) =>
        ret.out[1] >= 0

\* Some segment of the polyline has zero length.
HasZeroLengthSegment(obj) ==
    \E i \in 1..Len(obj.lines) : obj.lines[i][1] = obj.lines[i][2]

\* C8: for a valid polyline with a zero-length segment, line_distance divides
\* by no zero (no segment yields NaN) and River.distance returns a
\* number.
C8_ZeroLengthSegmentGuarded ==
    (/\ ret.op = "distance"
     /\ ret.objs = << "river" >>
     /\ ValidObject(objects["river"])
     /\ ~ret.raised
     /\ HasZeroLengthSegment(objects["river"])) =>
        /\ \A i \in 1..Len(objects["river"].lines) :
              ~IsNaN(line_distance(ret.xy, objects["river"].lines[i]))
        /\ ~IsNaN(ret.out[1])

\* The projection of a (latitude, longitude) pair: x from the longitude,
\* y from the latitude.
ProjectLocal(coord) ==
    << (coord[2] - SW_LON) * CosKmPerDeg, (coord[1] - SW_LAT) * KmPerDeg >>

\* C9: the segments of a valid polyline clue join the projections of its
\* reference coordinates, and the point River.distance measures from is
\* the projection of the query point, with x from the longitude and y
\* from the latitude.
C9_ProjectionTakesLonLat ==
    /\ ("river" \in DOMAIN objects /\ ValidObject(objects["river"])) =>
          LET r == objects["river"]
          IN \A i \in 1..Len(r.lines) :
                r.lines[i] = << ProjectLocal(r.coords[i]),
                                ProjectLocal(r.coords[i + 1]) >>
    /\ (ret.op = "distance" /\ ret.objs = << "river" >>) =>
          ret.xy = ProjectLocal(ret.point)

\* C10: on one Mapper, whatever calls came before, the posterior a call
\* returns is the uniform prior times the densities of exactly the clues
\* selected in that call, normalized once.
C10_PosteriorOfSelectedClues ==
    IsCombine =>
        /\ ~ret.raised
        /\ ret.out = normalize(PriorTimesDensities(mappers[ret.n], ret.objs))

C10_Witness ==
    /\ ret.op = "get_distribution"
    /\ Len(ret.objs) = 1
    /\ ret.n = MaxN
    /\ DOMAIN pdfattr = Names
    /\ \E i \in 1..Len(ret.out) : ret.out[i] > 0
    /\ ret.out = normalize(PriorTimesDensities(mappers[ret.n], ret.objs))
    /\ ret.out # normalize(PriorTimesDensities(mappers[ret.n],
                                               AllObjects(objects)))

====
